---- MODULE Spec2Model ----
(***************************************************************************)
(* Order fulfilment and stock reconciliation of database_config_v2.py.     *)
(*                                                                         *)
(* The committed PostgreSQL tables are the record db.  Every public        *)
(* function opens its own connection (get_connection, autocommit off) and  *)
(* runs one transaction: the statements it has executed are kept in        *)
(* pending[s] until conn.commit() applies them, or the except branch of    *)
(* get_connection rolls them back.  One action is one SQL statement        *)
(* together with the Python code that follows it up to the next statement. *)
(* Isolation is READ COMMITTED (the psycopg2 default): a SELECT reads the  *)
(* committed rows, an UPDATE waits for the row lock of an uncommitted      *)
(* UPDATE of the same row and then works on the newest committed version.  *)
(*                                                                         *)
(* Row ids (SERIAL) are the positions of the rows in their tables; ids     *)
(* are handed out when a transaction commits.  Columns that no statement   *)
(* of the module reads back (store, requested_by, notes, timestamps,       *)
(* supplier, out_by, name) are left out.                                   *)
(*                                                                         *)
(* create_product of database_config_render.py works on the same tables    *)
(* and is modelled beside the create_product of database_config_v2.py.     *)
(***************************************************************************)
EXTENDS Integers, Sequences, FiniteSets, TLC

\* ---------------------------------------------------------------- bounds
NumSessions   == 2
MaxProducts   == 1
MaxOrders     == 1
MaxQty        == 2
MaxDispatches == 1
MaxEntries    == 1
MaxRows       == 4

Sessions   == 1..NumSessions
Eans       == 1..MaxProducts
References == 1..MaxProducts
ProductIds == 1..(MaxProducts + 1)
OrderIds   == 1..(MaxOrders + 1)
OrderQtys  == 0..MaxQty
FulfilQtys == (0 - 1)..(MaxQty + 1)
MoveQtys   == 0..MaxQty

\* ------------------------------------------------------- seeds and schema
UNITS_SEED == <<"MDC - Carioca", "MDC - Madureira", "MDC - Bonsucesso",
                "MDC - Nilopolis", "MDC - Santa Cruz", "MDC - Mesquita",
                "MDC - CD">>

SECTORS_SEED == <<"Bijuteria", "Eletronicos", "Conveniencia", "Papelaria",
                  "Variedades", "Utilidades", "Utensilios", "CaMeBa",
                  "Brinquedos", "Decoracao", "Pet", "Led", "Natal",
                  "Carnaval">>

UnitInputs   == {"MDC - CD", "Loja Desconhecida"}
SectorInputs == {"Pet", "Setor Desconhecido"}

\* variant: every statement commits on its own
autocommit_on == TRUE

\* conn.autocommit = False
autocommit == FALSE

\* conn.autocommit = False: the statements of a call run in one transaction
\* block, and a statement that raises leaves the block aborted; every later
\* statement raises InFailedSqlTransaction until the rollback
StatementErrorAborts == TRUE

\* current_stock has only a plain index on product_id, no UNIQUE constraint
StockProductIdUnique == FALSE

\* CHECK (quantity > 0) of entries and of dispatches
MoveQuantityCheck(q) == q > 0

\* variant: a CHECK that lets zero through
RequestedQuantityCheck_nonneg(q) == q >= 0

\* CHECK (requested_quantity > 0)
RequestedQuantityCheck(q) == q > 0

\* CHECK (delivered_quantity >= 0)
DeliveredQuantityCheck(d) == d >= 0

\* variant: the column keeps the requested quantity
PendingQuantity_requested(requested, delivered) == requested

\* pending_quantity INTEGER GENERATED ALWAYS AS
\* (requested_quantity - delivered_quantity) STORED
PendingQuantity(requested, delivered) == requested - delivered

\* variant: a CHECK that lets zero through
FulfilledQuantityCheck_nonneg(q) == q >= 0

\* CHECK (fulfilled_quantity > 0)
FulfilledQuantityCheck(q) == q > 0

\* ---------------------------------------------------------------- state
VARIABLES db, pc, call, pending, ret, app

vars == <<db, pc, call, pending, ret, app>>

\* the state of the database and of its sessions
dbvars == <<db, pc, call, pending, ret>>

\* the application process (initialisation, pages, carts) before it runs
AppIdle == [proc |-> "none"]

NoCall == [op |-> "none", order_id |-> 0, product_id |-> 0, quantity |-> 0,
           requested |-> 0, delivered |-> 0, unit_id |-> 0,
           ean |-> 0, reference |-> 0, failed |-> FALSE]

NoRet == [op |-> "none", outcome |-> "none", detail |-> 0]

EmptyDb == [products |-> <<>>, current_stock |-> <<>>, entries |-> <<>>,
            dispatches |-> <<>>, orders |-> <<>>, order_fulfillments |-> <<>>]

\* _get_id: the id of a name in a seeded table, 0 when there is no row
RECURSIVE IndexOf(_, _, _)
IndexOf(seq, name, i) ==
    IF i > Len(seq) THEN 0
    ELSE IF seq[i] = name THEN i ELSE IndexOf(seq, name, i + 1)

\* variant: a name that has no row gets the id of the first row
_get_id_first(table, name) ==
    IF IndexOf(table, name, 1) = 0 THEN 1 ELSE IndexOf(table, name, 1)

_get_id(table, name) == IndexOf(table, name, 1)

\* ------------------------------------------------ sums over the fact tables
RECURSIVE SumEntries(_, _, _)
SumEntries(d, p, i) ==
    IF i > Len(d.entries) THEN 0
    ELSE (IF d.entries[i].product_id = p THEN d.entries[i].quantity ELSE 0)
         + SumEntries(d, p, i + 1)

RECURSIVE SumDispatches(_, _, _)
SumDispatches(d, p, i) ==
    IF i > Len(d.dispatches) THEN 0
    ELSE (IF d.dispatches[i].product_id = p THEN d.dispatches[i].quantity ELSE 0)
         + SumDispatches(d, p, i + 1)

\* get_order_fulfillment_history(order_id), summed
RECURSIVE SumHistory(_, _, _)
SumHistory(d, o, i) ==
    IF i > Len(d.order_fulfillments) THEN 0
    ELSE (IF d.order_fulfillments[i].order_id = o
          THEN d.order_fulfillments[i].fulfilled_quantity ELSE 0)
         + SumHistory(d, o, i + 1)

RECURSIVE SumFulfilledOfProduct(_, _, _)
SumFulfilledOfProduct(d, p, i) ==
    IF i > Len(d.orders) THEN 0
    ELSE (IF d.orders[i].product_id = p THEN SumHistory(d, i, 1) ELSE 0)
         + SumFulfilledOfProduct(d, p, i + 1)

StockRowsOf(d, p) ==
    {i \in DOMAIN d.current_stock : d.current_stock[i].product_id = p}

\* ------------------------------------------------ the logic of fulfill_order
\* variant: the quantity is compared with the whole order, not with what is left
ExceedsOrder_ignores_delivered(requested, delivered, quantity) == quantity > requested

\* variant: off by one
ExceedsOrder_off_by_one(requested, delivered, quantity) ==
    delivered + quantity > requested + 1

\* if delivered + quantity > requested: raise ValueError
ExceedsOrder(requested, delivered, quantity) == delivered + quantity > requested

\* variant: the message states the requested quantity
MaxAllowed_requested(requested, delivered) == requested

\* f"... Maximo: {requested - delivered}"
MaxAllowed(requested, delivered) == requested - delivered

\* variant: the delivered quantity is overwritten, not added to
DeliveredAfter_overwrite(delivered, quantity) == quantity

\* SET delivered_quantity = delivered_quantity + %s
DeliveredAfter(delivered, quantity) == delivered + quantity

\* variant: strict comparison
StatusAfter_strict(requested, delivered, quantity) ==
    IF delivered + quantity > requested THEN "Atendido" ELSE "Parcial"

\* status = CASE WHEN delivered_quantity + %s >= requested_quantity ...
StatusAfter(requested, delivered, quantity) ==
    IF delivered + quantity >= requested THEN "Atendido" ELSE "Parcial"

\* variant: the ledger is left alone
StockAfterRemoval_skipped(total, quantity) == total

\* SET total_quantity = total_quantity - %s
StockAfterRemoval(total, quantity) == total - quantity

\* total_quantity = current_stock.total_quantity + %s
StockAfterEntry(total, quantity) == total + quantity

\* UPDATE current_stock SET total_quantity = <expression> WHERE product_id = p:
\* the new value of every row of the product, computed from the newest
\* committed version of the row
StockUpdate(d, p, quantity) ==
    [i \in StockRowsOf(d, p) |->
        StockAfterRemoval(d.current_stock[i].total_quantity, quantity)]

StockUpsert(d, p, quantity) ==
    [i \in StockRowsOf(d, p) |->
        StockAfterEntry(d.current_stock[i].total_quantity, quantity)]

\* ------------------------------------------------ effect of one statement
Apply(d, w) ==
    CASE w.t = "ins_product" ->
           [d EXCEPT !.products = Append(@, w.row)]
      [] w.t = "ins_stock_currval" ->
           [d EXCEPT !.current_stock =
               Append(@, [product_id |-> Len(d.products),
                          total_quantity |-> w.row.total_quantity])]
      [] w.t = "ins_stock" ->
           [d EXCEPT !.current_stock = Append(@, w.row)]
      [] w.t = "ins_entry" ->
           [d EXCEPT !.entries = Append(@, w.row)]
      [] w.t = "ins_dispatch" ->
           [d EXCEPT !.dispatches = Append(@, w.row)]
      [] w.t = "ins_order" ->
           [d EXCEPT !.orders =
               Append(@, [product_id |-> w.row.product_id,
                          requested_quantity |-> w.row.requested_quantity,
                          delivered_quantity |-> 0,
                          pending_quantity |->
                              PendingQuantity(w.row.requested_quantity, 0),
                          status |-> "Pendente"])]
      [] w.t = "ins_fulfillment" ->
           [d EXCEPT !.order_fulfillments = Append(@, w.row)]
      [] w.t = "upd_order" ->
           [d EXCEPT !.orders[w.row.id] =
               [@ EXCEPT !.delivered_quantity =
                            DeliveredAfter(@, w.row.quantity),
                         !.pending_quantity =
                            PendingQuantity(
                                d.orders[w.row.id].requested_quantity,
                                DeliveredAfter(
                                    d.orders[w.row.id].delivered_quantity,
                                    w.row.quantity)),
                         !.status =
                            StatusAfter(d.orders[w.row.id].requested_quantity,
                                        d.orders[w.row.id].delivered_quantity,
                                        w.row.quantity)]]
      [] w.t = "upd_stock" ->
           [d EXCEPT !.current_stock =
               [i \in DOMAIN @ |->
                   IF i \in DOMAIN w.row.totals
                   THEN [@[i] EXCEPT !.total_quantity = w.row.totals[i]]
                   ELSE @[i]]]

RECURSIVE ApplyAll(_, _, _)
ApplyAll(d, ws, i) ==
    IF i > Len(ws) THEN d ELSE ApplyAll(Apply(d, ws[i]), ws, i + 1)

\* row locks held by the uncommitted UPDATEs of the other sessions
OrderLocked(s, o) ==
    \E t \in Sessions \ {s} : \E i \in DOMAIN pending[t] :
        pending[t][i].t = "upd_order" /\ pending[t][i].row.id = o

\* variant: the UPDATE of current_stock does not wait for the row lock
StockLocked_never(s, p) == FALSE

StockLocked(s, p) ==
    \E t \in Sessions \ {s} : \E i \in DOMAIN pending[t] :
        /\ pending[t][i].t = "upd_stock"
        /\ pending[t][i].row.product_id = p

\* an uncommitted INSERT of the same unique key makes a second INSERT wait
ProductKeyPending(s, ean, reference) ==
    \E t \in Sessions \ {s} : \E i \in DOMAIN pending[t] :
        /\ pending[t][i].t = "ins_product"
        /\ (pending[t][i].row.ean = ean \/ pending[t][i].row.reference = reference)

\* rows of a table, committed or inserted by a transaction still running
\* (only the bounds of the model count them)
RECURSIVE CountInserts(_, _, _)
CountInserts(ws, t, i) ==
    IF i > Len(ws) THEN 0
    ELSE (IF ws[i].t \in t THEN 1 ELSE 0) + CountInserts(ws, t, i + 1)

RECURSIVE CountPending(_, _)
CountPending(t, n) ==
    IF n = 0 THEN 0 ELSE CountInserts(pending[n], t, 1) + CountPending(t, n - 1)

FactInserts ==
    {"ins_product", "ins_entry", "ins_dispatch", "ins_order", "ins_fulfillment"}

RowsInUse ==
    Len(db.products) + Len(db.entries) + Len(db.dispatches) + Len(db.orders)
      + Len(db.order_fulfillments) + CountPending(FactInserts, NumSessions)

\* the model stops adding rows at its bounds
RoomFor(committed, t, max) ==
    /\ committed + CountPending({t}, NumSessions) < max
    /\ RowsInUse < MaxRows

\* cur.execute of a statement that the server accepts
Execute(s, w) ==
    IF autocommit
    THEN /\ db' = Apply(db, w)
         /\ UNCHANGED pending
    ELSE /\ pending' = [pending EXCEPT ![s] = Append(@, w)]
         /\ UNCHANGED db

\* an exception leaves the with-block: conn.rollback(), raise
Raise(s, op, outcome, detail) ==
    /\ pc' = [pc EXCEPT ![s] = "idle"]
    /\ call' = [call EXCEPT ![s] = NoCall]
    /\ pending' = [pending EXCEPT ![s] = <<>>]
    /\ ret' = [op |-> op, outcome |-> outcome, detail |-> detail]
    /\ UNCHANGED db

\* with get_connection() as conn: a call starts on an idle session
CanBegin(s) == pc[s] = "idle"

Init ==
    /\ db = EmptyDb
    /\ pc = [s \in Sessions |-> "idle"]
    /\ call = [s \in Sessions |-> NoCall]
    /\ pending = [s \in Sessions |-> <<>>]
    /\ ret = NoRet
    /\ app = AppIdle

\* ----------------------------------------------------------- create_product
\* _get_id(conn, "sectors", sector) and INSERT INTO products ... RETURNING id
CreateProductInsert(s, ean, reference, sector) ==
    /\ CanBegin(s)
    /\ UNCHANGED app
    /\ ~ProductKeyPending(s, ean, reference)
    /\ IF _get_id(SECTORS_SEED, sector) = 0
       THEN Raise(s, "create_product", "NotFound", 0)
       ELSE IF \E i \in DOMAIN db.products :
                   db.products[i].ean = ean \/ db.products[i].reference = reference
       THEN Raise(s, "create_product", "UniqueViolation", 0)
       ELSE /\ RoomFor(Len(db.products), "ins_product", MaxProducts)
            /\ Execute(s, [t |-> "ins_product",
                           row |-> [ean |-> ean, reference |-> reference,
                                    sector_id |-> _get_id(SECTORS_SEED, sector)]])
            /\ pc' = [pc EXCEPT ![s] = "insert_stock"]
            /\ call' = [call EXCEPT ![s] = [NoCall EXCEPT !.op = "create_product"]]
            /\ ret' = NoRet

\* INSERT INTO current_stock (product_id, total_quantity) VALUES (%s, 0)
CreateProductStock(s) ==
    /\ pc[s] = "insert_stock"
    /\ UNCHANGED app
    /\ Execute(s, [t |-> "ins_stock_currval", row |-> [total_quantity |-> 0]])
    /\ pc' = [pc EXCEPT ![s] = "commit"]
    /\ UNCHANGED <<call, ret>>

\* ------------------------------- create_product of database_config_render
\* SELECT id FROM sectors WHERE name = %s, and inside the try:
\* INSERT INTO products ... RETURNING id
RenderCreateProductInsert(s, ean, reference, sector) ==
    /\ CanBegin(s)
    /\ UNCHANGED app
    /\ ~ProductKeyPending(s, ean, reference)
    /\ IF _get_id(SECTORS_SEED, sector) = 0
       THEN Raise(s, "render_create_product", "NotFound", 0)
       ELSE IF \E i \in DOMAIN db.products :
                   db.products[i].ean = ean \/ db.products[i].reference = reference
       THEN \* UniqueViolation, caught by "except Exception"
            /\ pc' = [pc EXCEPT ![s] = "select_existing"]
            /\ call' = [call EXCEPT ![s] =
                          [NoCall EXCEPT !.op = "render_create_product",
                                         !.ean = ean,
                                         !.reference = reference,
                                         !.failed = StatementErrorAborts]]
            /\ ret' = NoRet
            /\ UNCHANGED <<db, pending>>
       ELSE /\ RoomFor(Len(db.products), "ins_product", MaxProducts)
            /\ Execute(s, [t |-> "ins_product",
                           row |-> [ean |-> ean, reference |-> reference,
                                    sector_id |-> _get_id(SECTORS_SEED, sector)]])
            /\ pc' = [pc EXCEPT ![s] = "render_insert_stock"]
            /\ call' = [call EXCEPT ![s] =
                          [NoCall EXCEPT !.op = "render_create_product",
                                         !.ean = ean,
                                         !.reference = reference]]
            /\ ret' = NoRet

\* INSERT INTO current_stock (product_id, total_quantity) VALUES (%s, 0)
RenderCreateProductStock(s) ==
    /\ pc[s] = "render_insert_stock"
    /\ UNCHANGED app
    /\ Execute(s, [t |-> "ins_stock_currval", row |-> [total_quantity |-> 0]])
    /\ pc' = [pc EXCEPT ![s] = "commit"]
    /\ UNCHANGED <<call, ret>>

\* except Exception: SELECT id FROM products WHERE ean = %s OR reference = %s;
\* the row's id is returned, "raise" when there is no row
RenderCreateProductSelect(s) ==
    /\ pc[s] = "select_existing"
    /\ UNCHANGED app
    /\ IF call[s].failed
       THEN Raise(s, "render_create_product", "InFailedSqlTransaction", 0)
       ELSE IF \E i \in DOMAIN db.products :
                   \/ db.products[i].ean = call[s].ean
                   \/ db.products[i].reference = call[s].reference
       THEN \E i \in DOMAIN db.products :
               /\ \/ db.products[i].ean = call[s].ean
                  \/ db.products[i].reference = call[s].reference
               /\ pc' = [pc EXCEPT ![s] = "idle"]
               /\ call' = [call EXCEPT ![s] = NoCall]
               /\ pending' = [pending EXCEPT ![s] = <<>>]
               /\ ret' = [op |-> "render_create_product", outcome |-> "ok",
                          detail |-> i]
               /\ UNCHANGED db
       ELSE Raise(s, "render_create_product", "UniqueViolation", 0)

\* ---------------------------------------------------------------- add_entry
\* INSERT INTO entries ... RETURNING id
AddEntryInsert(s, product_id, quantity) ==
    /\ CanBegin(s)
    /\ UNCHANGED app
    /\ IF ~MoveQuantityCheck(quantity)
       THEN Raise(s, "add_entry", "CheckViolation", 0)
       ELSE IF product_id \notin DOMAIN db.products
       THEN Raise(s, "add_entry", "ForeignKeyViolation", 0)
       ELSE /\ RoomFor(Len(db.entries), "ins_entry", MaxEntries)
            /\ Execute(s, [t |-> "ins_entry",
                           row |-> [product_id |-> product_id, quantity |-> quantity]])
            /\ pc' = [pc EXCEPT ![s] = "upsert_stock"]
            /\ call' = [call EXCEPT ![s] =
                          [NoCall EXCEPT !.op = "add_entry",
                                         !.product_id = product_id,
                                         !.quantity = quantity]]
            /\ ret' = NoRet

\* INSERT INTO current_stock ... ON CONFLICT (product_id) DO UPDATE ...
\* The conflict target needs a unique index on current_stock(product_id);
\* without one the server rejects the statement.
AddEntryUpsertStock(s) ==
    /\ pc[s] = "upsert_stock"
    /\ UNCHANGED app
    /\ IF ~StockProductIdUnique
       THEN Raise(s, "add_entry", "InvalidConflictTarget", 0)
       ELSE /\ ~StockLocked(s, call[s].product_id)
            /\ IF StockRowsOf(db, call[s].product_id) = {}
               THEN Execute(s, [t |-> "ins_stock",
                                row |-> [product_id |-> call[s].product_id,
                                         total_quantity |-> call[s].quantity]])
               ELSE Execute(s, [t |-> "upd_stock",
                                row |-> [product_id |-> call[s].product_id,
                                         totals |-> StockUpsert(db, call[s].product_id,
                                                                call[s].quantity)]])
            /\ pc' = [pc EXCEPT ![s] = "commit"]
            /\ UNCHANGED <<call, ret>>

\* ------------------------------------------------------------- add_dispatch
\* _get_id(conn, "units", unit) and INSERT INTO dispatches ... RETURNING id
AddDispatchInsert(s, unit, product_id, quantity) ==
    /\ CanBegin(s)
    /\ UNCHANGED app
    /\ IF _get_id(UNITS_SEED, unit) = 0
       THEN Raise(s, "add_dispatch", "NotFound", 0)
       ELSE IF ~MoveQuantityCheck(quantity)
       THEN Raise(s, "add_dispatch", "CheckViolation", 0)
       ELSE IF product_id \notin DOMAIN db.products
       THEN Raise(s, "add_dispatch", "ForeignKeyViolation", 0)
       ELSE /\ RoomFor(Len(db.dispatches), "ins_dispatch", MaxDispatches)
            /\ Execute(s, [t |-> "ins_dispatch",
                           row |-> [unit_id |-> _get_id(UNITS_SEED, unit),
                                    product_id |-> product_id,
                                    quantity |-> quantity]])
            /\ pc' = [pc EXCEPT ![s] = "dispatch_stock"]
            /\ call' = [call EXCEPT ![s] =
                          [NoCall EXCEPT !.op = "add_dispatch",
                                         !.product_id = product_id,
                                         !.quantity = quantity,
                                         !.unit_id = _get_id(UNITS_SEED, unit)]]
            /\ ret' = NoRet

\* UPDATE current_stock SET total_quantity = total_quantity - %s WHERE product_id = %s
AddDispatchUpdateStock(s) ==
    /\ pc[s] = "dispatch_stock"
    /\ UNCHANGED app
    /\ ~StockLocked(s, call[s].product_id)
    /\ Execute(s, [t |-> "upd_stock",
                   row |-> [product_id |-> call[s].product_id,
                            totals |-> StockUpdate(db, call[s].product_id,
                                                   call[s].quantity)]])
    /\ pc' = [pc EXCEPT ![s] = "commit"]
    /\ UNCHANGED <<call, ret>>

\* ------------------------------------------------------------- create_order
\* INSERT INTO orders (store, product_id, requested_quantity, ...) RETURNING id
\* delivered_quantity and status take their column defaults
CreateOrderInsert(s, product_id, quantity) ==
    /\ CanBegin(s)
    /\ UNCHANGED app
    /\ IF ~RequestedQuantityCheck(quantity)
       THEN Raise(s, "create_order", "CheckViolation", 0)
       ELSE IF product_id \notin DOMAIN db.products
       THEN Raise(s, "create_order", "ForeignKeyViolation", 0)
       ELSE /\ RoomFor(Len(db.orders), "ins_order", MaxOrders)
            /\ Execute(s, [t |-> "ins_order",
                           row |-> [product_id |-> product_id,
                                    requested_quantity |-> quantity]])
            /\ pc' = [pc EXCEPT ![s] = "commit"]
            /\ call' = [call EXCEPT ![s] =
                          [NoCall EXCEPT !.op = "create_order",
                                         !.product_id = product_id,
                                         !.quantity = quantity]]
            /\ ret' = NoRet

\* ------------------------------------------------------------ fulfill_order
\* SELECT requested_quantity, delivered_quantity, product_id FROM orders
\* WHERE id = %s, and the two checks on the row read
FulfillSelect(s, order_id, quantity) ==
    /\ CanBegin(s)
    /\ UNCHANGED app
    /\ IF order_id \notin DOMAIN db.orders
       THEN Raise(s, "fulfill_order", "NotFound", 0)
       ELSE LET order_data == db.orders[order_id]
                requested  == order_data.requested_quantity
                delivered  == order_data.delivered_quantity
            IN  IF ExceedsOrder(requested, delivered, quantity)
                THEN Raise(s, "fulfill_order", "ExceedsOrder",
                           MaxAllowed(requested, delivered))
                ELSE /\ RowsInUse < MaxRows
                     /\ pc' = [pc EXCEPT ![s] = "insert_fulfillment"]
                     /\ call' = [call EXCEPT ![s] =
                                   [NoCall EXCEPT
                                      !.op = "fulfill_order",
                                      !.order_id = order_id,
                                      !.product_id = order_data.product_id,
                                      !.quantity = quantity,
                                      !.requested = requested,
                                      !.delivered = delivered]]
                     /\ ret' = NoRet
                     /\ UNCHANGED <<db, pending>>

\* INSERT INTO order_fulfillments (order_id, fulfilled_quantity, ...) RETURNING id
FulfillInsert(s) ==
    /\ pc[s] = "insert_fulfillment"
    /\ UNCHANGED app
    /\ IF ~FulfilledQuantityCheck(call[s].quantity)
       THEN Raise(s, "fulfill_order", "CheckViolation", 0)
       ELSE /\ Execute(s, [t |-> "ins_fulfillment",
                           row |-> [order_id |-> call[s].order_id,
                                    fulfilled_quantity |-> call[s].quantity]])
            /\ pc' = [pc EXCEPT ![s] = "update_order"]
            /\ UNCHANGED <<call, ret>>

\* UPDATE orders SET delivered_quantity = ..., status = CASE ... WHERE id = %s
FulfillUpdateOrder(s) ==
    /\ pc[s] = "update_order"
    /\ UNCHANGED app
    /\ ~OrderLocked(s, call[s].order_id)
    /\ IF ~DeliveredQuantityCheck(
              DeliveredAfter(db.orders[call[s].order_id].delivered_quantity,
                             call[s].quantity))
       THEN Raise(s, "fulfill_order", "CheckViolation", 0)
       ELSE /\ Execute(s, [t |-> "upd_order",
                           row |-> [id |-> call[s].order_id,
                                    quantity |-> call[s].quantity]])
            /\ pc' = [pc EXCEPT ![s] = "fulfill_stock"]
            /\ UNCHANGED <<call, ret>>

\* UPDATE current_stock SET total_quantity = total_quantity - %s WHERE product_id = %s
FulfillUpdateStock(s) ==
    /\ pc[s] = "fulfill_stock"
    /\ UNCHANGED app
    /\ ~StockLocked(s, call[s].product_id)
    /\ Execute(s, [t |-> "upd_stock",
                   row |-> [product_id |-> call[s].product_id,
                            totals |-> StockUpdate(db, call[s].product_id,
                                                   call[s].quantity)]])
    /\ pc' = [pc EXCEPT ![s] = "commit"]
    /\ UNCHANGED <<call, ret>>

\* ------------------------------------------------------------ cancellation
\* No function of the module writes 'Cancelado'; the CHECK of orders.status
\* admits it, and an administrator sets it on an order that is not Atendido,
\* between two calls.
CancelOrder(o) ==
    /\ \A s \in Sessions : pc[s] = "idle"
    /\ UNCHANGED app
    /\ o \in DOMAIN db.orders
    /\ db.orders[o].status \in {"Pendente", "Parcial"}
    /\ db' = [db EXCEPT !.orders[o].status = "Cancelado"]
    /\ ret' = NoRet
    /\ UNCHANGED <<pc, call, pending>>

\* ------------------------------------------------------- commit and failure
\* conn.commit(); return <id>
Commit(s) ==
    /\ pc[s] = "commit"
    /\ UNCHANGED app
    /\ db' = ApplyAll(db, pending[s], 1)
    /\ pending' = [pending EXCEPT ![s] = <<>>]
    /\ pc' = [pc EXCEPT ![s] = "idle"]
    /\ call' = [call EXCEPT ![s] = NoCall]
    /\ ret' = [op |-> call[s].op, outcome |-> "ok", detail |-> 0]

\* the server or the network fails under a statement or under the commit:
\* psycopg2 raises, get_connection rolls back and re-raises
Fail(s) ==
    /\ pc[s] # "idle"
    /\ UNCHANGED app
    /\ Raise(s, call[s].op, "OperationalError", 0)

\* ------------------------------------------------------------ specifications
Call(s) ==
    \/ \E e \in Eans, r \in References, sec \in SectorInputs :
           CreateProductInsert(s, e, r, sec)
    \/ CreateProductStock(s)
    \/ \E p \in ProductIds, q \in MoveQtys : AddEntryInsert(s, p, q)
    \/ AddEntryUpsertStock(s)
    \/ \E u \in UnitInputs, p \in ProductIds, q \in MoveQtys :
           AddDispatchInsert(s, u, p, q)
    \/ AddDispatchUpdateStock(s)
    \/ \E p \in ProductIds, q \in OrderQtys : CreateOrderInsert(s, p, q)
    \/ \E o \in OrderIds, q \in FulfilQtys : FulfillSelect(s, o, q)
    \/ FulfillInsert(s)
    \/ FulfillUpdateOrder(s)
    \/ FulfillUpdateStock(s)
    \/ Commit(s)

\* create_product of database_config_render, on the same tables
RenderCall(s) ==
    \/ \E e \in Eans, r \in References, sec \in SectorInputs :
           RenderCreateProductInsert(s, e, r, sec)
    \/ RenderCreateProductStock(s)
    \/ RenderCreateProductSelect(s)

\* calls that do not overlap: one connection at a time
Next == Call(1)

Spec == Init /\ [][Next]_vars

\* calls that do not overlap, any statement or commit of which may fail
FaultNext == Call(1) \/ Fail(1)

FaultSpec == Init /\ [][FaultNext]_vars

\* calls that do not overlap, and the administrative cancellation of orders
CancelNext == Call(1) \/ \E o \in OrderIds : CancelOrder(o)

CancelSpec == Init /\ [][CancelNext]_vars

\* calls that do not overlap, products created by either module
RenderNext == Call(1) \/ RenderCall(1)

RenderSpec == Init /\ [][RenderNext]_vars

\* The stock race: a product and two orders for it are stored (the tables
\* after create_product and two create_order calls), and the sessions run the
\* calls that change the stock, at the same time, with arguments that the
\* server accepts: a stored product, a known unit, a positive quantity.
StockRaceInit ==
    /\ db = ApplyAll(EmptyDb,
                     <<[t |-> "ins_product",
                        row |-> [ean |-> 1, reference |-> 1,
                                 sector_id |-> _get_id(SECTORS_SEED, "Pet")]],
                       [t |-> "ins_stock_currval", row |-> [total_quantity |-> 0]],
                       [t |-> "ins_order",
                        row |-> [product_id |-> 1, requested_quantity |-> MaxQty]],
                       [t |-> "ins_order",
                        row |-> [product_id |-> 1, requested_quantity |-> MaxQty]]>>,
                     1)
    /\ pc = [s \in Sessions |-> "idle"]
    /\ call = [s \in Sessions |-> NoCall]
    /\ pending = [s \in Sessions |-> <<>>]
    /\ ret = NoRet
    /\ app = AppIdle

StockCall(s) ==
    \/ \E p \in DOMAIN db.products, q \in 1..MaxQty : AddEntryInsert(s, p, q)
    \/ AddEntryUpsertStock(s)
    \/ \E p \in DOMAIN db.products, q \in 1..MaxQty :
           AddDispatchInsert(s, "MDC - CD", p, q)
    \/ AddDispatchUpdateStock(s)
    \/ \E o \in DOMAIN db.orders, q \in 1..MaxQty : FulfillSelect(s, o, q)
    \/ FulfillInsert(s)
    \/ FulfillUpdateOrder(s)
    \/ FulfillUpdateStock(s)
    \/ Commit(s)

StockRaceNext == \E s \in Sessions : StockCall(s)

StockRaceSpec == StockRaceInit /\ [][StockRaceNext]_vars

\* calls of different sessions running at the same time
ConcNext == \E s \in Sessions : Call(s)

ConcSpec == Init /\ [][ConcNext]_vars

\* ==================================================================== claims

Order(i) == db.orders[i]

FulfillRunning(s) == call[s].op = "fulfill_order"

\* the steps a FulfillSelect of the first session can be: it starts on the idle
\* connection and either raises out of fulfill_order or goes on inside it
SelectStep ==
    /\ pc[1] = "idle"
    /\ ret'.op = "fulfill_order" \/ call'[1].op = "fulfill_order"

\* C1: after any sequence of create_order and fulfill_order calls that do not
\* overlap, every order has 0 <= delivered_quantity <= requested_quantity.
C1_DeliveredWithinRequested ==
    \A i \in DOMAIN db.orders :
        /\ 0 <= Order(i).delivered_quantity
        /\ Order(i).delivered_quantity <= Order(i).requested_quantity

\* an order delivered up to its limit in two fulfillments
C1_Witness ==
    \E i \in DOMAIN db.orders :
        /\ Order(i).delivered_quantity = Order(i).requested_quantity
        /\ Len(db.order_fulfillments) = 2
        /\ ret.op = "fulfill_order" /\ ret.outcome = "ok"

\* C2: of two fulfill_order transactions on one order that both read the row
\* before the other commits and each ask for more than half of what remains,
\* exactly one succeeds, and delivered_quantity never exceeds
\* requested_quantity.  Stated on the commit of such a transaction: it does
\* not commit on top of the other one's delivery, and the committed
\* delivered_quantity stays within requested_quantity.
C2_ConcurrentFulfillOneWins ==
    [][\A s \in Sessions :
          (FulfillRunning(s) /\ pc[s] = "commit" /\ pc'[s] = "idle"
             /\ ret'.outcome = "ok")
          => LET o         == call[s].order_id
                 remaining == call[s].requested - call[s].delivered
                 other     == Order(o).delivered_quantity - call[s].delivered
             IN  /\ ~(2 * call[s].quantity > remaining /\ 2 * other > remaining)
                 /\ db'.orders[o].delivered_quantity
                       <= db'.orders[o].requested_quantity]_vars

\* C3: for every product, total_quantity = entries - dispatches - fulfillments
\* of that product, and the product has a stock row.
C3_StockConservation ==
    \A p \in DOMAIN db.products :
        /\ StockRowsOf(db, p) # {}
        /\ \A i \in StockRowsOf(db, p) :
              db.current_stock[i].total_quantity =
                  SumEntries(db, p, 1) - SumDispatches(db, p, 1)
                    - SumFulfilledOfProduct(db, p, 1)

\* a product with a committed dispatch and a committed fulfillment
C3_Witness ==
    \E p \in DOMAIN db.products :
        SumDispatches(db, p, 1) > 0 /\ SumFulfilledOfProduct(db, p, 1) > 0

\* C4: for every order, the fulfilled_quantity of its committed
\* order_fulfillments rows sums to its delivered_quantity.
C4_HistorySumsToDelivered ==
    \A i \in DOMAIN db.orders :
        SumHistory(db, i, 1) = Order(i).delivered_quantity

\* an order with two committed fulfillments
C4_Witness ==
    \E i \in DOMAIN db.orders :
        /\ Order(i).delivered_quantity >= 2
        /\ Len(db.order_fulfillments) >= 2

\* C5: every order that is not Cancelado is Pendente exactly when nothing is
\* delivered, Parcial exactly when 0 < delivered < requested, Atendido exactly
\* when delivered = requested.
C5_StatusMatchesDelivered ==
    \A i \in DOMAIN db.orders :
        Order(i).status # "Cancelado" =>
            /\ Order(i).status = "Pendente" <=> Order(i).delivered_quantity = 0
            /\ Order(i).status = "Parcial" <=>
                  (0 < Order(i).delivered_quantity
                   /\ Order(i).delivered_quantity < Order(i).requested_quantity)
            /\ Order(i).status = "Atendido" <=>
                  Order(i).delivered_quantity = Order(i).requested_quantity

\* C6: fulfill_order is atomic.  While the call runs and when it fails, the
\* committed tables do not change; the one step that changes them is the
\* commit, which adds the fulfillment row, raises delivered_quantity and
\* lowers the stock of the product, all by the quantity of the call.
C6_FulfillAtomic ==
    [][FulfillRunning(1) =>
          IF pc'[1] = "idle" /\ ret'.outcome = "ok"
          THEN LET o == call[1].order_id
                   q == call[1].quantity
               IN  /\ db'.order_fulfillments =
                         Append(db.order_fulfillments,
                                [order_id |-> o, fulfilled_quantity |-> q])
                   /\ db'.orders[o].delivered_quantity =
                         Order(o).delivered_quantity + q
                   /\ \A i \in DOMAIN db.current_stock :
                         db'.current_stock[i].total_quantity =
                             IF db.current_stock[i].product_id = call[1].product_id
                             THEN db.current_stock[i].total_quantity - q
                             ELSE db.current_stock[i].total_quantity
          ELSE db' = db]_vars

\* a fulfill_order call has failed part way, and the order is as it was
C6_Witness ==
    /\ ret.op = "fulfill_order" /\ ret.outcome = "OperationalError"
    /\ \E i \in DOMAIN db.orders :
          Order(i).delivered_quantity = 0 /\ Order(i).status = "Pendente"
    /\ db.order_fulfillments = <<>>

\* C7: for an order with remaining > 0, fulfill_order(order, remaining) is
\* accepted, succeeds and leaves the order Atendido; fulfill_order(order,
\* remaining + 1) fails and changes no table.
C7_RemainingBoundary ==
    [][/\ SelectStep =>
             \A o \in DOMAIN db.orders, q \in FulfilQtys :
                 LET remaining == Order(o).requested_quantity
                                    - Order(o).delivered_quantity
                 IN  (remaining > 0 /\ FulfillSelect(1, o, q)) =>
                        /\ q = remaining => pc'[1] = "insert_fulfillment"
                        /\ q = remaining + 1 =>
                              /\ pc'[1] = "idle"
                              /\ ret'.outcome = "ExceedsOrder"
                              /\ db' = db /\ pending' = pending
       /\ (FulfillRunning(1)
             /\ call[1].quantity = call[1].requested - call[1].delivered
             /\ call[1].quantity > 0) =>
                /\ pc'[1] = "idle" =>
                      /\ ret'.outcome = "ok"
                      /\ db'.orders[call[1].order_id].status = "Atendido"
                      /\ db'.orders[call[1].order_id].delivered_quantity =
                            call[1].requested]_vars

\* a partly delivered order was completed by a fulfillment of what remained
C7_Witness ==
    /\ ret.op = "fulfill_order" /\ ret.outcome = "ok"
    /\ Len(db.order_fulfillments) = 2
    /\ \E i \in DOMAIN db.orders :
          Order(i).status = "Atendido" /\ SumHistory(db, i, 1) = MaxQty

\* C8: once the whole remaining quantity of an order is consumed, every
\* further fulfill_order with quantity > 0 is rejected with maximum 0 and
\* changes neither the order, nor its history, nor the stock.
C8_ReplayRejected ==
    [][SelectStep =>
          \A o \in DOMAIN db.orders, q \in FulfilQtys :
              (/\ q > 0
               /\ Order(o).delivered_quantity = Order(o).requested_quantity
               /\ FulfillSelect(1, o, q)) =>
                  /\ pc'[1] = "idle"
                  /\ ret' = [op |-> "fulfill_order", outcome |-> "ExceedsOrder",
                             detail |-> 0]
                  /\ db' = db /\ pending' = pending]_vars

\* a call on a completely delivered order has been rejected with maximum 0
C8_Witness ==
    /\ ret = [op |-> "fulfill_order", outcome |-> "ExceedsOrder", detail |-> 0]
    /\ \E i \in DOMAIN db.orders :
          Order(i).delivered_quantity = Order(i).requested_quantity

\* C9: fulfill_order with quantity <= 0 on an existing order fails and
\* changes neither the order, nor its history, nor the stock.
C9_NonPositiveRejected ==
    [][/\ SelectStep =>
             \A o \in DOMAIN db.orders, q \in FulfilQtys :
                 (q <= 0 /\ FulfillSelect(1, o, q)) =>
                    /\ db' = db /\ pending' = pending
                    /\ pc'[1] = "idle" => ret'.outcome # "ok"
       /\ (FulfillRunning(1) /\ call[1].quantity <= 0) =>
             /\ pc'[1] = "idle"
             /\ ret'.outcome # "ok"
             /\ db' = db]_vars

\* a call with quantity <= 0 on a partly delivered order has failed
C9_Witness ==
    /\ ret.op = "fulfill_order" /\ ret.outcome = "CheckViolation"
    /\ \E i \in DOMAIN db.orders : Order(i).status = "Parcial"

\* C10: when fulfill_order rejects a quantity as exceeding the order, the
\* maximum in the error is requested_quantity - delivered_quantity of the
\* committed order.
C10_MaximumIsRemaining ==
    [][(SelectStep /\ ret'.outcome = "ExceedsOrder") =>
          \A o \in DOMAIN db.orders, q \in FulfilQtys :
              FulfillSelect(1, o, q) =>
                  ret'.detail = db'.orders[o].requested_quantity
                                  - db'.orders[o].delivered_quantity]_vars

\* a rejection of a partly delivered order, with a positive maximum
C10_Witness ==
    /\ ret.op = "fulfill_order" /\ ret.outcome = "ExceedsOrder"
    /\ ret.detail = 1
    /\ \E i \in DOMAIN db.orders : Order(i).delivered_quantity = 1

\* C11: create_order for a stored product with quantity > 0 creates exactly
\* one order, with delivered_quantity = 0, status Pendente and
\* pending_quantity = requested_quantity = quantity, and changes no other
\* table; with quantity <= 0 it fails and creates no order.
C11_CreateOrder ==
    [][/\ (pc[1] = "idle"
             /\ (ret'.op = "create_order" \/ call'[1].op = "create_order")) =>
             \A p \in DOMAIN db.products, q \in OrderQtys :
                 CreateOrderInsert(1, p, q) =>
                    /\ db' = db
                    /\ IF q > 0
                       THEN pc'[1] = "commit"
                       ELSE /\ pc'[1] = "idle"
                            /\ ret'.outcome # "ok"
                            /\ pending'[1] = <<>>
       /\ (call[1].op = "create_order" /\ pc'[1] = "idle") =>
             /\ ret'.outcome = "ok"
             /\ db' = [db EXCEPT !.orders =
                          Append(@, [product_id |-> call[1].product_id,
                                     requested_quantity |-> call[1].quantity,
                                     delivered_quantity |-> 0,
                                     pending_quantity |-> call[1].quantity,
                                     status |-> "Pendente"])]]_vars

\* create_order has returned and its order is stored, pending in full
C11_Witness ==
    /\ ret.op = "create_order" /\ ret.outcome = "ok"
    /\ \E i \in DOMAIN db.orders :
          /\ Order(i).status = "Pendente"
          /\ Order(i).delivered_quantity = 0
          /\ Order(i).pending_quantity = MaxQty

\* C12: no step changes the requested_quantity of a stored order or lowers
\* its delivered_quantity, and pending_quantity is always
\* requested_quantity - delivered_quantity.
C12_OrderQuantities ==
    [][/\ \A i \in DOMAIN db.orders :
             /\ i \in DOMAIN db'.orders
             /\ db'.orders[i].requested_quantity = Order(i).requested_quantity
             /\ db'.orders[i].delivered_quantity >= Order(i).delivered_quantity
       /\ \A i \in DOMAIN db'.orders :
             db'.orders[i].pending_quantity =
                 db'.orders[i].requested_quantity
                   - db'.orders[i].delivered_quantity]_vars

\* a fulfillment has raised delivered_quantity and lowered pending_quantity
C12_Witness ==
    /\ ret.op = "fulfill_order" /\ ret.outcome = "ok"
    /\ \E i \in DOMAIN db.orders :
          /\ Order(i).requested_quantity = 2
          /\ Order(i).delivered_quantity = 1
          /\ Order(i).pending_quantity = 1

\* C13: every step that rewrites a stored order takes its status from
\* Pendente to Parcial, from Pendente to Atendido, from Parcial to Parcial or
\* from Parcial to Atendido.
C13_StatusForward ==
    [][\A i \in DOMAIN db.orders :
          db'.orders[i] # Order(i) =>
              <<Order(i).status, db'.orders[i].status>> \in
                  {<<"Pendente", "Parcial">>, <<"Pendente", "Atendido">>,
                   <<"Parcial", "Parcial">>, <<"Parcial", "Atendido">>}]_vars

\* C14: Cancelado is terminal.  A fulfill_order call on an order whose
\* status is Cancelado does not get past its checks, and no step changes a
\* Cancelado order, the fulfillment history or the stock of its product.
C14_CanceladoTerminal ==
    [][\A o \in DOMAIN db.orders :
          Order(o).status = "Cancelado" =>
              /\ (pc[1] = "idle" /\ call'[1].op = "fulfill_order")
                    => call'[1].order_id # o
              /\ db'.orders[o] = Order(o)
              /\ SumHistory(db', o, 1) = SumHistory(db, o, 1)]_vars

\* C15: add_entry(product, q) with q > 0 on a stored product returns, commits
\* exactly one entry row, raises the total_quantity of the product by q and
\* changes nothing else; with q <= 0 it commits nothing.
C15_AddEntry ==
    [][/\ (call[1].op = "add_entry" /\ pc'[1] = "idle") =>
             /\ ret'.outcome = "ok"
             /\ db'.entries = Append(db.entries,
                                     [product_id |-> call[1].product_id,
                                      quantity |-> call[1].quantity])
             /\ \A i \in DOMAIN db.current_stock :
                   db'.current_stock[i].total_quantity =
                       IF db.current_stock[i].product_id = call[1].product_id
                       THEN db.current_stock[i].total_quantity + call[1].quantity
                       ELSE db.current_stock[i].total_quantity
             /\ db'.orders = db.orders
             /\ db'.order_fulfillments = db.order_fulfillments
             /\ db'.dispatches = db.dispatches
       /\ (pc[1] = "idle" /\ ret'.op = "add_entry") => db' = db]_vars

\* the unit names of the calls that are not in the units table
UnknownUnits ==
    {u \in UnitInputs : \A i \in DOMAIN UNITS_SEED : UNITS_SEED[i] # u}

\* C16: add_dispatch with a unit name that is not in the units table fails,
\* commits no dispatch row and leaves every total_quantity unchanged: a step
\* of add_dispatch that does not end in the failure of the lookup is not a
\* call with such a name, and the failure of the lookup changes no table.
C16_UnknownUnit ==
    [][/\ (pc[1] = "idle" /\ ret'.outcome # "NotFound"
             /\ (ret'.op = "add_dispatch" \/ call'[1].op = "add_dispatch")) =>
             \A u \in UnknownUnits, p \in ProductIds, q \in MoveQtys :
                 ~AddDispatchInsert(1, u, p, q)
       /\ (pc[1] = "idle" /\ ret'.op = "add_dispatch"
             /\ ret'.outcome = "NotFound") =>
                /\ pc'[1] = "idle"
                /\ db' = db
                /\ pending'[1] = <<>>]_vars

\* add_dispatch has failed on the unit name, with a product in stock
C16_Witness ==
    /\ ret = [op |-> "add_dispatch", outcome |-> "NotFound", detail |-> 0]
    /\ db.products # <<>>
    /\ db.dispatches = <<>>

\* C17: add_dispatch and fulfill_order apply no floor check: a dispatch or a
\* fulfillment of q > 0 succeeds and lowers the total_quantity of the product
\* by exactly q, whatever the total_quantity is; an entry of q1 raises it by
\* q1, so that an entry of q1 followed by a dispatch of q2 changes it by
\* q1 - q2.
C17_NoFloor ==
    [][/\ ((call[1].op = "add_dispatch"
               \/ (call[1].op = "fulfill_order" /\ call[1].quantity > 0))
             /\ pc'[1] = "idle") =>
                /\ ret'.outcome = "ok"
                /\ \A i \in StockRowsOf(db, call[1].product_id) :
                      db'.current_stock[i].total_quantity =
                          db.current_stock[i].total_quantity - call[1].quantity
       /\ (call[1].op = "add_entry" /\ pc'[1] = "idle") =>
             \A i \in StockRowsOf(db, call[1].product_id) :
                 db'.current_stock[i].total_quantity =
                     db.current_stock[i].total_quantity + call[1].quantity]_vars

\* C18: create_product of database_config_render, called with a known sector
\* and an ean or a reference that a stored product has, does not raise: it
\* returns the id of such a product and creates no row.
C18_ExistingProductReturned ==
    [][/\ (pc[1] = "idle" /\ ret'.op = "render_create_product") =>
             \A e \in Eans, r \in References, sec \in SectorInputs :
                 (/\ \E j \in DOMAIN SECTORS_SEED : SECTORS_SEED[j] = sec
                  /\ \E i \in DOMAIN db.products :
                        db.products[i].ean = e \/ db.products[i].reference = r)
                 => ~RenderCreateProductInsert(1, e, r, sec)
       /\ (pc[1] = "select_existing" /\ pc'[1] = "idle") =>
             /\ ret'.outcome = "ok"
             /\ ret'.detail \in
                   {i \in DOMAIN db.products :
                       \/ db.products[i].ean = call[1].ean
                       \/ db.products[i].reference = call[1].reference}
             /\ db' = db]_vars

\* C19: every stored product has exactly one current_stock row.  The step
\* that stores a product stores its stock row, with total_quantity 0, and no
\* step adds a stock row without a product or removes a stock row.
C19_OneStockRowPerProduct ==
    [][/\ \A p \in DOMAIN db'.products :
             Cardinality(StockRowsOf(db', p)) = 1
       /\ Len(db'.current_stock) = Len(db'.products)
       /\ \A i \in DOMAIN db'.current_stock :
             IF i \in DOMAIN db.current_stock
             THEN db'.current_stock[i].product_id = db.current_stock[i].product_id
             ELSE db'.current_stock[i] = [product_id |-> i, total_quantity |-> 0]]_vars

\* a product has its one stock row after a dispatch has changed it and an
\* add_entry call has ended
C19_Witness ==
    /\ ret.op = "add_entry"
    /\ \E p \in DOMAIN db.products :
          /\ Cardinality(StockRowsOf(db, p)) = 1
          /\ \E i \in StockRowsOf(db, p) : db.current_stock[i].total_quantity < 0

\* C20: no stock update is lost.  Whatever the other sessions have done since
\* a transaction began, its commit changes the committed total_quantity of
\* its product by exactly its own delta, and no other stock row.
C20_NoLostStockUpdate ==
    [][\A s \in Sessions :
          (pc[s] = "commit" /\ pc'[s] = "idle"
             /\ call[s].op \in {"add_entry", "add_dispatch", "fulfill_order"}) =>
                \A i \in DOMAIN db.current_stock :
                    db'.current_stock[i].total_quantity =
                        db.current_stock[i].total_quantity
                          + (IF db.current_stock[i].product_id # call[s].product_id
                             THEN 0
                             ELSE IF call[s].op = "add_entry"
                                  THEN call[s].quantity
                                  ELSE 0 - call[s].quantity)]_vars

\* two fulfillments of different orders for one product run at the same
\* time: one has updated the stock row and not yet committed, the other
\* waits for the row
C20_Witness ==
    /\ pc[1] = "commit" /\ pc[2] = "fulfill_stock"
    /\ call[1].op = "fulfill_order" /\ call[2].op = "fulfill_order"
    /\ call[1].order_id # call[2].order_id
    /\ call[1].product_id = call[2].product_id

\* ============================================== init_database (render module)
\* An error text is the sequence of its words, in the letter case it has.
\* The server words a deadlock 'deadlock detected'; the driver may put words
\* around it, and other layers may change its letter case.
ErrorTexts ==
    { <<"deadlock", "detected">>,
      <<"ERROR:", "Deadlock", "Detected", "DETAIL:", "Process">>,
      <<"deadlock", "was", "detected">>,
      <<"connection", "refused">> }

\* str.lower() of a word
LowerWord(w) ==
    CASE w = "ERROR:"   -> "error:"
      [] w = "Deadlock" -> "deadlock"
      [] w = "Detected" -> "detected"
      [] w = "DETAIL:"  -> "detail:"
      [] w = "Process"  -> "process"
      [] OTHER          -> w

\* str(e).lower()
Lower(text) == [i \in DOMAIN text |-> LowerWord(text[i])]

\* pattern in text
Contains(text, pattern) ==
    \E i \in 1..(Len(text) - Len(pattern) + 1) :
        SubSeq(text, i, i + Len(pattern) - 1) = pattern

\* the mutant of IsDeadlock: every error is retried
IsDeadlock_any(e) == TRUE

\* "deadlock detected" in str(e).lower()
IsDeadlock(e) == Contains(Lower(e), <<"deadlock", "detected">>)

max_retries == 5

base_delay == 1

\* random.uniform(0, 1), in whole seconds: the ends of the interval
Jitter == {0, 1}

\* the value init_database returned, and the state it returned in
InitDbReturn(value) ==
    app' = [app EXCEPT !.phase = "returned", !.result = value]

InitDbInit ==
    /\ db = EmptyDb
    /\ pc = [s \in Sessions |-> "idle"]
    /\ call = [s \in Sessions |-> NoCall]
    /\ pending = [s \in Sessions |-> <<>>]
    /\ ret = NoRet
    /\ app = [proc |-> "init_database", attempt |-> 0, phase |-> "try",
              result |-> "none", errors |-> <<>>, delay |-> 0]

\* the body of the try runs to conn.commit(): return True
InitDbCommit ==
    /\ app.proc = "init_database"
    /\ app.phase = "try"
    /\ InitDbReturn("True")
    /\ UNCHANGED dbvars

\* the body of the try raises e: the except clause
InitDbExcept(e) ==
    /\ app.proc = "init_database"
    /\ app.phase = "try"
    /\ IF IsDeadlock(e)
       THEN IF app.attempt < max_retries - 1
            THEN \E j \in Jitter :
                     app' = [app EXCEPT !.phase = "sleep",
                                        !.errors = Append(@, e),
                                        !.delay = base_delay * (2 ^ app.attempt) + j]
            ELSE app' = [app EXCEPT !.phase = "returned", !.result = "False",
                                    !.errors = Append(@, e)]
       ELSE app' = [app EXCEPT !.phase = "returned", !.result = "False",
                               !.errors = Append(@, e)]
    /\ UNCHANGED dbvars

\* time.sleep(delay); continue: the next attempt of range(max_retries), and
\* the return False after the loop when there is none
InitDbSleep ==
    /\ app.proc = "init_database"
    /\ app.phase = "sleep"
    /\ IF app.attempt + 1 < max_retries
       THEN app' = [app EXCEPT !.phase = "try", !.attempt = @ + 1, !.delay = 0]
       ELSE InitDbReturn("False")
    /\ UNCHANGED dbvars

InitDbNext ==
    \/ InitDbCommit
    \/ \E e \in ErrorTexts : InitDbExcept(e)
    \/ InitDbSleep

\* every attempt ends (it commits or raises) and every sleep ends
InitDbSpec == InitDbInit /\ [][InitDbNext]_vars /\ WF_vars(InitDbNext)

\* the texts of ErrorTexts that contain 'deadlock detected', letter case aside
DeadlockTexts ==
    { <<"deadlock", "detected">>,
      <<"ERROR:", "Deadlock", "Detected", "DETAIL:", "Process">> }

\* C21: init_database makes at most 5 attempts and always returns; an attempt
\* that commits returns True; an attempt that raises is followed by another
\* one only when the error text contains 'deadlock detected' (in any letter
\* case) and it was not the fifth attempt; the fifth deadlock returns False,
\* and any other error returns False at once.
C21_InitDatabase ==
    /\ [](app.attempt + 1 <= 5)
    /\ [][app.phase = "try" =>
            IF app'.errors = app.errors
            THEN app'.phase = "returned" /\ app'.result = "True"
            ELSE LET e == app'.errors[Len(app'.errors)]
                 IN  IF e \in DeadlockTexts /\ app.attempt + 1 < 5
                     THEN app'.phase = "sleep" /\ app'.result = "none"
                     ELSE app'.phase = "returned" /\ app'.result = "False"]_vars
    /\ [][app.phase = "sleep" =>
            app'.phase = "try" /\ app'.attempt = app.attempt + 1]_vars
    /\ <>(app.phase = "returned")

\* the fifth attempt met a deadlock after four retried ones: False
C21_Witness ==
    /\ app.proc = "init_database"
    /\ app.phase = "returned"
    /\ app.result = "False"
    /\ app.attempt = 4
    /\ Len(app.errors) = 5
    /\ \A i \in 1..5 : app.errors[i] \in DeadlockTexts

\* ================== create_order_in_postgresql (streamlit_app_postgresql)
MaxLines == 2

MaxCalls == 2

\* The lines that the pages submit.  "Novo Pedido" requires the EAN and lets
\* the reference be blank; the sector comes from get_sectors(), whose fallback
\* list has "Geral", a name that the sectors table is not seeded with.
LineKeys == [ean : {"E1", "E2"}, reference : {"", "R1"}]

OrderLines ==
    [ean : {"E1", "E2"}, reference : {"", "R1"}, sector : {"Pet", "Geral"},
     quantity : {1}]

ProductsData ==
    UNION {[1..n -> OrderLines] : n \in 1..MaxLines}

CoipIdle ==
    [proc |-> "create_order_in_postgresql", phase |-> "idle", lines |-> <<>>,
     i |-> 0, product_id |-> 0, order_ids |-> <<>>, result |-> "none",
     calls |-> 0, orders0 |-> 0, products0 |-> 0]

CoipInit ==
    /\ db = EmptyDb
    /\ pc = [s \in Sessions |-> "idle"]
    /\ call = [s \in Sessions |-> NoCall]
    /\ pending = [s \in Sessions |-> <<>>]
    /\ ret = NoRet
    /\ app = CoipIdle

\* return True / except Exception: return False
CoipReturn(value) ==
    app' = [app EXCEPT !.phase = "idle", !.result = value, !.i = 0,
                       !.product_id = 0]

\* SELECT id FROM products WHERE reference = %s OR ean = %s
ProductMatches(d, line) ==
    {p \in DOMAIN d.products :
        d.products[p].reference = line.reference \/ d.products[p].ean = line.ean}

\* the call: order_ids = [], the first product of products_data
CoipBegin(products_data) ==
    /\ app.proc = "create_order_in_postgresql"
    /\ app.phase = "idle"
    /\ app.calls < MaxCalls
    /\ app' = [CoipIdle EXCEPT !.phase = "select", !.lines = products_data,
                               !.i = 1, !.calls = app.calls + 1,
                               !.orders0 = Len(db.orders),
                               !.products0 = Len(db.products)]
    /\ UNCHANGED dbvars

\* the SELECT and cur.fetchone(): any of the rows that match
CoipSelect ==
    /\ app.proc = "create_order_in_postgresql"
    /\ app.phase = "select"
    /\ IF ProductMatches(db, app.lines[app.i]) # {}
       THEN \E p \in ProductMatches(db, app.lines[app.i]) :
                app' = [app EXCEPT !.phase = "create_order", !.product_id = p]
       ELSE app' = [app EXCEPT !.phase = "create_product"]
    /\ UNCHANGED dbvars

\* create_product(ean, reference, name, sector) of database_config_render, in
\* a transaction of its own: ValueError for a sector that is not stored, the
\* product and its stock row committed otherwise.  An INSERT that violates a
\* unique constraint ends in InFailedSqlTransaction.
CoipCreateProduct ==
    /\ app.proc = "create_order_in_postgresql"
    /\ app.phase = "create_product"
    /\ LET line == app.lines[app.i]
       IN  IF _get_id(SECTORS_SEED, line.sector) = 0
           THEN CoipReturn("False") /\ UNCHANGED dbvars
           ELSE IF \E p \in DOMAIN db.products :
                       \/ db.products[p].ean = line.ean
                       \/ db.products[p].reference = line.reference
           THEN CoipReturn("False") /\ UNCHANGED dbvars
           ELSE /\ db' = ApplyAll(db,
                            <<[t |-> "ins_product",
                               row |-> [ean |-> line.ean,
                                        reference |-> line.reference,
                                        sector_id |->
                                            _get_id(SECTORS_SEED, line.sector)]],
                              [t |-> "ins_stock_currval",
                               row |-> [total_quantity |-> 0]]>>, 1)
                /\ app' = [app EXCEPT !.phase = "create_order",
                                      !.product_id = Len(db.products) + 1]
                /\ UNCHANGED <<pc, call, pending, ret>>

\* create_order(store, product_id, quantity, ...) of database_config_render,
\* in a transaction of its own; order_ids.append(order_id); the next product,
\* or return True after the last one
CoipCreateOrder ==
    /\ app.proc = "create_order_in_postgresql"
    /\ app.phase = "create_order"
    /\ LET line == app.lines[app.i]
       IN  IF ~RequestedQuantityCheck(line.quantity)
           THEN CoipReturn("False") /\ UNCHANGED dbvars
           ELSE /\ db' = Apply(db, [t |-> "ins_order",
                                    row |-> [product_id |-> app.product_id,
                                             requested_quantity |-> line.quantity]])
                /\ IF app.i < Len(app.lines)
                   THEN app' = [app EXCEPT !.phase = "select", !.i = @ + 1,
                                           !.product_id = 0,
                                           !.order_ids =
                                               Append(@, Len(db.orders) + 1)]
                   ELSE app' = [app EXCEPT !.phase = "idle", !.result = "True",
                                           !.i = 0, !.product_id = 0,
                                           !.order_ids =
                                               Append(@, Len(db.orders) + 1)]
                /\ UNCHANGED <<pc, call, pending, ret>>

\* a statement or a connection fails: except Exception, return False
CoipExcept ==
    /\ app.proc = "create_order_in_postgresql"
    /\ app.phase \in {"select", "create_product", "create_order"}
    /\ CoipReturn("False")
    /\ UNCHANGED dbvars

CoipNext ==
    \/ \E products_data \in ProductsData : CoipBegin(products_data)
    \/ CoipSelect
    \/ CoipCreateProduct
    \/ CoipCreateOrder
    \/ CoipExcept

CoipSpec == CoipInit /\ [][CoipNext]_vars

\* C22: the product that create_order_in_postgresql orders for a line has the
\* line's ean, which is not empty, or the line's reference, which is not
\* empty; an empty key of the line selects no stored product.
C22_ProductByNonEmptyKey ==
    [][(/\ app.proc = "create_order_in_postgresql"
        /\ app.phase = "create_order"
        /\ Len(db'.orders) = Len(db.orders) + 1) =>
          LET line == app.lines[app.i]
              product == db'.products[db'.orders[Len(db'.orders)].product_id]
          IN  \/ line.ean # "" /\ product.ean = line.ean
              \/ line.reference # "" /\ product.reference = line.reference]_vars

\* C25: create_order_in_postgresql is all-or-nothing: a call that returns
\* True has committed one order for each line, and a call that returns False
\* has committed no order and no product.
C25_AllOrNothing ==
    [][(/\ app.proc = "create_order_in_postgresql"
        /\ app.phase # "idle"
        /\ app'.phase = "idle") =>
          /\ app'.result = "True" =>
                Len(db'.orders) = app.orders0 + Len(app.lines)
          /\ app'.result = "False" =>
                /\ Len(db'.orders) = app.orders0
                /\ Len(db'.products) = app.products0]_vars

\* ============================================= the cart of streamlit_app.py
\* the rows of the stock sheet that the selectbox offers, by their reference
CartReferences == {"R1", "R2"}

CartInit ==
    /\ db = EmptyDb
    /\ pc = [s \in Sessions |-> "idle"]
    /\ call = [s \in Sessions |-> NoCall]
    /\ pending = [s \in Sessions |-> <<>>]
    /\ ret = NoRet
    /\ app = [proc |-> "streamlit_app", carrinho |-> <<>>,
              edit_carrinho |-> FALSE, sent |-> <<>>]

\* the position of the cart item with this reference, 0 when there is none
CartIndex(carrinho, referencia) ==
    IF \E i \in DOMAIN carrinho : carrinho[i].referencia = referencia
    THEN CHOOSE i \in DOMAIN carrinho :
            /\ carrinho[i].referencia = referencia
            /\ \A j \in 1..(i - 1) : carrinho[j].referencia # referencia
    ELSE 0

\* carrinho.pop(i)
Pop(seq, i) == SubSeq(seq, 1, i - 1) \o SubSeq(seq, i + 1, Len(seq))

\* "Adicionar ao Carrinho": number_input(min_value=1), the item of the same
\* reference grows, a new item is appended otherwise
AddToCart(referencia, quantidade) ==
    /\ app.proc = "streamlit_app"
    /\ quantidade >= 1
    /\ LET i == CartIndex(app.carrinho, referencia)
       IN  IF i # 0
           THEN /\ app.carrinho[i].quantidade + quantidade <= MaxQty
                /\ app' = [app EXCEPT !.carrinho[i].quantidade = @ + quantidade]
           ELSE app' = [app EXCEPT !.carrinho =
                           Append(@, [referencia |-> referencia,
                                      quantidade |-> quantidade])]
    /\ UNCHANGED dbvars

\* "Limpar Carrinho"
ClearCart ==
    /\ app.proc = "streamlit_app"
    /\ app.carrinho # <<>>
    /\ app' = [app EXCEPT !.carrinho = <<>>]
    /\ UNCHANGED dbvars

\* "Editar Quantidades"
EditQuantities ==
    /\ app.proc = "streamlit_app"
    /\ app.carrinho # <<>>
    /\ ~app.edit_carrinho
    /\ app' = [app EXCEPT !.edit_carrinho = TRUE]
    /\ UNCHANGED dbvars

\* the number_input(min_value=0) of item i in the edit section
EditQty(i, new_qty) ==
    /\ app.proc = "streamlit_app"
    /\ app.edit_carrinho
    /\ i \in DOMAIN app.carrinho
    /\ new_qty >= 0
    /\ new_qty # app.carrinho[i].quantidade
    /\ app' = [app EXCEPT !.carrinho[i].quantidade = new_qty]
    /\ UNCHANGED dbvars

\* the remove button of item i in the edit section
RemoveItem(i) ==
    /\ app.proc = "streamlit_app"
    /\ app.edit_carrinho
    /\ i \in DOMAIN app.carrinho
    /\ app' = [app EXCEPT !.carrinho = Pop(@, i)]
    /\ UNCHANGED dbvars

\* "Concluir Edição"
ConcludeEdit ==
    /\ app.proc = "streamlit_app"
    /\ app.edit_carrinho
    /\ app' = [app EXCEPT !.edit_carrinho = FALSE]
    /\ UNCHANGED dbvars

\* "Enviar Pedido": create_order_in_sheets(store, carrinho) appends the row
\* and the cart is emptied
SendOrder ==
    /\ app.proc = "streamlit_app"
    /\ app.carrinho # <<>>
    /\ app' = [app EXCEPT !.sent = app.carrinho, !.carrinho = <<>>]
    /\ UNCHANGED dbvars

CartNext ==
    \/ \E r \in CartReferences, q \in 1..MaxQty : AddToCart(r, q)
    \/ ClearCart
    \/ EditQuantities
    \/ \E i \in 1..Cardinality(CartReferences), q \in 0..MaxQty : EditQty(i, q)
    \/ \E i \in 1..Cardinality(CartReferences) : RemoveItem(i)
    \/ ConcludeEdit
    \/ SendOrder

CartSpec == CartInit /\ [][CartNext]_vars

\* C23: every line of an order sent from the cart of streamlit_app.py has a
\* quantity of at least 1.
C23_SentQuantityPositive ==
    app.proc = "streamlit_app" =>
        \A i \in DOMAIN app.sent : app.sent[i].quantidade >= 1

\* ========================================= orders of streamlit_app_sheets
\* the stores of the users that authenticate_user reads from the sheet
UserStores == {"CD", "MDC - Carioca"}

SheetsProducts == {"R1", "R2"}

SheetsInit ==
    /\ db = EmptyDb
    /\ pc = [s \in Sessions |-> "idle"]
    /\ call = [s \in Sessions |-> NoCall]
    /\ pending = [s \in Sessions |-> <<>>]
    /\ ret = NoRet
    /\ app = [proc |-> "streamlit_app_sheets", user_data |-> "none",
              carrinho |-> <<>>, rows |-> <<>>]

\* the rows that create_order_in_sheets(store, products_data) appends: column
\* 7, Loja, is its argument store.  user_store is not a column: it is the
\* store of the user who is logged in when the row is appended.
RECURSIVE OrderRows(_, _, _, _)
OrderRows(store, products_data, user_store, i) ==
    IF i > Len(products_data)
    THEN <<>>
    ELSE <<[Referencia |-> products_data[i], Loja |-> store,
            user_store |-> user_store]>>
         \o OrderRows(store, products_data, user_store, i + 1)

\* the login page: st.session_state.user_data = user_data
SheetsLogin(store) ==
    /\ app.proc = "streamlit_app_sheets"
    /\ app.user_data = "none"
    /\ app' = [app EXCEPT !.user_data = store]
    /\ UNCHANGED dbvars

\* the logout button
SheetsLogout ==
    /\ app.proc = "streamlit_app_sheets"
    /\ app.user_data # "none"
    /\ app' = [app EXCEPT !.user_data = "none"]
    /\ UNCHANGED dbvars

\* a product is put in the cart, a dictionary that keeps the order of entry
SheetsAddToCart(product) ==
    /\ app.proc = "streamlit_app_sheets"
    /\ app.user_data # "none"
    /\ \A i \in DOMAIN app.carrinho : app.carrinho[i] # product
    /\ app' = [app EXCEPT !.carrinho = Append(@, product)]
    /\ UNCHANGED dbvars

\* "Criar Pedido" of the cart: order_data['store'] is 'CD'
SheetsCartOrder ==
    /\ app.proc = "streamlit_app_sheets"
    /\ app.user_data # "none"
    /\ app.carrinho # <<>>
    /\ Len(app.rows) + Len(app.carrinho) <= MaxRows
    /\ app' = [app EXCEPT !.rows = @ \o OrderRows("CD", app.carrinho,
                                                  app.user_data, 1),
                          !.carrinho = <<>>]
    /\ UNCHANGED dbvars

\* "Fazer Pedido em Lote" of the order table, one call for each valid line:
\* create_order_in_sheets(st.session_state.user_data['store'], products_data)
SheetsTableOrder(product) ==
    /\ app.proc = "streamlit_app_sheets"
    /\ app.user_data # "none"
    /\ Len(app.rows) + 1 <= MaxRows
    /\ app' = [app EXCEPT !.rows = @ \o OrderRows(app.user_data, <<product>>,
                                                  app.user_data, 1)]
    /\ UNCHANGED dbvars

SheetsNext ==
    \/ \E store \in UserStores : SheetsLogin(store)
    \/ SheetsLogout
    \/ \E product \in SheetsProducts : SheetsAddToCart(product)
    \/ SheetsCartOrder
    \/ \E product \in SheetsProducts : SheetsTableOrder(product)

SheetsSpec == SheetsInit /\ [][SheetsNext]_vars

\* C24: every order row of the Sheets application has in Loja the store of
\* the logged-in user who submitted it, from the cart and from the order
\* table alike.
C24_LojaIsUserStore ==
    app.proc = "streamlit_app_sheets" =>
        \A i \in DOMAIN app.rows : app.rows[i].Loja = app.rows[i].user_store

\* ============================ the stock page of streamlit_app_postgresql
\* df_stock = pd.DataFrame(stock_data): one row for each label 0, 1, 2
StockLabels == {0, 1, 2}

\* 'EAN': ean or '' of a product without ean and of one with an ean of its
\* own; the ean of the first product may also be blanks
EanChoices(label) ==
    CASE label = 0 -> {"", " ", "E0"}
      [] label = 1 -> {"", "E1"}
      [] OTHER     -> {"", "E2"}

\* 'Setor' of the rows
SetorOf(label) == IF label = 0 THEN "Pet" ELSE "Led"

SectorFilters == {"Todos", "Pet", "Led"}

\* str.strip()
Strip(text) == IF text = " " THEN "" ELSE text

\* the stock tables that get_current_stock_for_orders may return
StockTables ==
    {t \in [StockLabels -> [ID : StockLabels, EAN : {"", " ", "E0", "E1", "E2"},
                            Setor : {"Pet", "Led"}, Quantidade : 0..MaxQty]] :
        \A l \in StockLabels :
            /\ t[l].ID = l
            /\ t[l].EAN \in EanChoices(l)
            /\ t[l].Setor = SetorOf(l)}

\* the labels of a frame in their order: df_stock after boolean indexing
\* keeps the labels of the rows it keeps
RECURSIVE FilteredLabels(_, _, _, _)
FilteredLabels(stock, sector_filter, min_stock, label) ==
    IF label \notin StockLabels
    THEN <<>>
    ELSE (IF /\ (sector_filter = "Todos" \/ stock[label].Setor = sector_filter)
             /\ (min_stock = 0 \/ stock[label].Quantidade >= min_stock)
          THEN <<label>>
          ELSE <<>>)
         \o FilteredLabels(stock, sector_filter, min_stock, label + 1)

StockPageInit ==
    /\ db = EmptyDb
    /\ pc = [s \in Sessions |-> "idle"]
    /\ call = [s \in Sessions |-> NoCall]
    /\ pending = [s \in Sessions |-> <<>>]
    /\ ret = NoRet
    /\ \E stock \in StockTables :
          app = [proc |-> "stock_page", stock |-> stock,
                 df_stock |-> FilteredLabels(stock, "Todos", 0, 0),
                 carrinho |-> {}, errors |-> 0]

\* the mutant of QtyWithinStock: the quantity is not compared with the stock
QtyWithinStock_any(qty_pedido, max_qty) == TRUE

\* if qty_pedido > max_qty: errors.append(...); continue
QtyWithinStock(qty_pedido, max_qty) == ~(qty_pedido > max_qty)

\* the rows of selected_products, one after the other.  idx is the label of
\* the selected row and df_stock.iloc[idx] the row at POSITION idx of the
\* filtered frame; IndexError when there is no such position, handled by an
\* except clause that names original_row: NameError ends the loop when no
\* earlier row has bound it.
RECURSIVE CartAfter(_, _, _, _, _, _)
CartAfter(a, selected, qty, i, acc, bound) ==
    IF i > Len(selected)
    THEN acc
    ELSE LET idx == selected[i]
         IN  IF idx >= Len(a.df_stock)
             THEN IF bound
                  THEN CartAfter(a, selected, qty, i + 1,
                                 [acc EXCEPT !.errors = @ + 1], bound)
                  ELSE [acc EXCEPT !.errors = @ + 1]
             ELSE LET original_row == a.stock[a.df_stock[idx + 1]]
                      max_qty == original_row.Quantidade
                  IN  IF ~QtyWithinStock(qty[idx], max_qty)
                      THEN CartAfter(a, selected, qty, i + 1,
                                     [acc EXCEPT !.errors = @ + 1], TRUE)
                      ELSE IF Strip(original_row.EAN) = ""
                      THEN CartAfter(a, selected, qty, i + 1,
                                     [acc EXCEPT !.errors = @ + 1], TRUE)
                      ELSE CartAfter(a, selected, qty, i + 1,
                                     [acc EXCEPT !.carrinho = @ \cup
                                         {[key |-> <<original_row.EAN, idx>>,
                                           EAN |-> original_row.EAN,
                                           ID |-> original_row.ID,
                                           Quantidade |-> max_qty,
                                           qty_pedido |-> qty[idx]]}],
                                     TRUE)

\* the selected labels of the frame, in the order of the frame
SelectedRows(df, selection) ==
    SelectSeq(df, LAMBDA label : label \in selection)

\* the sector and minimum-stock filters are set
SetFilters(sector_filter, min_stock) ==
    /\ app.proc = "stock_page"
    /\ app' = [app EXCEPT !.df_stock =
                   FilteredLabels(app.stock, sector_filter, min_stock, 0)]
    /\ app'.df_stock # app.df_stock
    /\ UNCHANGED dbvars

\* "Atualizar Carrinho" with rows of the table ticked and their 'Qtd Pedido'
\* (NumberColumn, min_value=1): the cart is emptied and filled again
UpdateCart(selection, qty) ==
    /\ app.proc = "stock_page"
    /\ app.df_stock # <<>>
    /\ \A label \in selection : \E i \in DOMAIN app.df_stock : app.df_stock[i] = label
    /\ \A label \in selection : qty[label] >= 1
    /\ LET after == CartAfter(app, SelectedRows(app.df_stock, selection), qty, 1,
                              [carrinho |-> {}, errors |-> 0], FALSE)
       IN  app' = [app EXCEPT !.carrinho = after.carrinho,
                              !.errors = after.errors]
    /\ UNCHANGED dbvars

\* the remove button of a cart item
RemoveFromCart(idx) ==
    /\ app.proc = "stock_page"
    /\ \E item \in app.carrinho : item.key[2] = idx
    /\ app' = [app EXCEPT !.carrinho = {item \in @ : item.key[2] # idx}]
    /\ UNCHANGED dbvars

\* "Limpar Seleções", under the table
ClearSelections ==
    /\ app.proc = "stock_page"
    /\ app.df_stock # <<>>
    /\ app.carrinho # {}
    /\ app' = [app EXCEPT !.carrinho = {}, !.errors = 0]
    /\ UNCHANGED dbvars

\* "Limpar Carrinho", in the cart section
ClearCarrinho ==
    /\ app.proc = "stock_page"
    /\ app.carrinho # {}
    /\ app' = [app EXCEPT !.carrinho = {}]
    /\ UNCHANGED dbvars

StockPageNext ==
    \/ \E f \in SectorFilters, m \in 0..MaxQty : SetFilters(f, m)
    \/ \E selection \in SUBSET StockLabels :
           \E qty \in [selection -> 1..(MaxQty + 1)] :
               UpdateCart(selection, qty)
    \/ \E idx \in StockLabels : RemoveFromCart(idx)
    \/ ClearSelections
    \/ ClearCarrinho

StockPageSpec == StockPageInit /\ [][StockPageNext]_vars

\* C26: every cart entry has an EAN that is not empty and a qty_pedido from 1
\* to the stock quantity that the entry stores.
C26_CartEntries ==
    app.proc = "stock_page" =>
        \A item \in app.carrinho :
            /\ item.EAN # ""
            /\ 1 <= item.qty_pedido
            /\ item.qty_pedido <= item.Quantidade

\* an update stored an entry at the whole stock and rejected another row
C26_Witness ==
    /\ app.proc = "stock_page"
    /\ app.errors > 0
    /\ \E item \in app.carrinho : item.qty_pedido = item.Quantidade

\* C27: the cart entry that "Atualizar Carrinho" stores for a selected row,
\* whatever filters are set, describes the product of that row: its EAN, its
\* identity and its stock quantity.
C27_EntryDescribesSelectedRow ==
    app.proc = "stock_page" =>
        \A item \in app.carrinho :
            LET row == app.stock[item.key[2]]
            IN  /\ item.EAN = row.EAN
                /\ item.ID = row.ID
                /\ item.Quantidade = row.Quantidade

\* =============== group_orders_by_session (streamlit_app_postgresql)
MaxListed == 2

\* created_at of the listed orders
Timestamps ==
    [year : {2024, 2025}, month : {1, 12}, day : {1, 31},
     hour : {10}, minute : {5}, second : {0, 30}]

\* the two digits of a number, as character codes ('0' is 48)
Digits2(n) == <<48 + (n \div 10), 48 + (n % 10)>>

Digits4(n) == Digits2(n \div 100) \o Digits2(n % 100)

\* created_at.strftime("%d/%m/%Y %H:%M:%S"), as character codes
\* ('/' is 47, ' ' is 32, ':' is 58)
Strftime(ts) ==
    Digits2(ts.day) \o <<47>> \o Digits2(ts.month) \o <<47>> \o Digits4(ts.year)
    \o <<32>> \o Digits2(ts.hour) \o <<58>> \o Digits2(ts.minute)
    \o <<58>> \o Digits2(ts.second)

\* a < b for two str values: the first character that differs decides
StrLess(a, b) ==
    \E i \in 1..Len(b) :
        /\ \A j \in 1..(i - 1) : j <= Len(a) /\ a[j] = b[j]
        /\ (i > Len(a) \/ a[i] < b[i])

\* key=lambda x: x['Data/Hora']
SortKey(group) == group.DataHora

\* date_part, time_part = data_hora.split(' '); h, m, s = time_part.split(':');
\* f"{date_part} {h}:{m}:00|{responsavel}|{loja}"
GroupKey(order) ==
    <<SubSeq(order.DataHora, 1, 16) \o <<58, 48, 48>>, order.Responsavel>>

\* the groups in the order of the dictionary: a group is made by the first
\* order of its key and takes that order's 'Data/Hora'.  created is not an
\* entry of the group: it is the created_at that 'Data/Hora' was formatted from.
RECURSIVE GroupedBy(_, _, _)
GroupedBy(orders_data, i, grouped) ==
    IF i > Len(orders_data)
    THEN grouped
    ELSE LET order == orders_data[i]
         IN  IF \E g \in DOMAIN grouped : grouped[g].key = GroupKey(order)
             THEN GroupedBy(orders_data, i + 1,
                            [g \in DOMAIN grouped |->
                                IF grouped[g].key = GroupKey(order)
                                THEN [grouped[g] EXCEPT !.Produtos = @ + 1]
                                ELSE grouped[g]])
             ELSE GroupedBy(orders_data, i + 1,
                            Append(grouped,
                                   [key |-> GroupKey(order),
                                    DataHora |-> order.DataHora,
                                    created |-> order.created,
                                    Produtos |-> 1]))

\* list.sort(key=..., reverse=True): stable, the greater key first
RECURSIVE InsertDescending(_, _)
InsertDescending(sorted, group) ==
    IF sorted = <<>>
    THEN <<group>>
    ELSE IF StrLess(SortKey(Head(sorted)), SortKey(group))
         THEN <<group>> \o sorted
         ELSE <<Head(sorted)>> \o InsertDescending(Tail(sorted), group)

RECURSIVE SortDescending(_, _, _)
SortDescending(groups, i, sorted) ==
    IF i > Len(groups)
    THEN sorted
    ELSE SortDescending(groups, i + 1, InsertDescending(sorted, groups[i]))

group_orders_by_session(orders_data) ==
    IF orders_data = <<>>
    THEN <<>>
    ELSE SortDescending(GroupedBy(orders_data, 1, <<>>), 1, <<>>)

\* the order_item of get_orders_by_store for a row created at ts
OrderItem(ts) ==
    [DataHora |-> Strftime(ts), Responsavel |-> "loja", created |-> ts]

OrderLists ==
    UNION {[1..n -> Timestamps] : n \in 0..MaxListed}

GroupInit ==
    /\ db = EmptyDb
    /\ pc = [s \in Sessions |-> "idle"]
    /\ call = [s \in Sessions |-> NoCall]
    /\ pending = [s \in Sessions |-> <<>>]
    /\ ret = NoRet
    /\ \E created \in OrderLists :
          app = [proc |-> "meus_pedidos",
                 orders_data |-> [i \in DOMAIN created |-> OrderItem(created[i])],
                 called |-> FALSE, grouped_orders |-> <<>>]

\* "Meus Pedidos": grouped_orders = group_orders_by_session(orders_data)
GroupOrders ==
    /\ app.proc = "meus_pedidos"
    /\ ~app.called
    /\ app' = [app EXCEPT !.called = TRUE,
                          !.grouped_orders =
                              group_orders_by_session(app.orders_data)]
    /\ UNCHANGED dbvars

GroupNext == GroupOrders

GroupSpec == GroupInit /\ [][GroupNext]_vars

\* a is an earlier moment than b
Earlier(a, b) ==
    LET A == <<a.year, a.month, a.day, a.hour, a.minute, a.second>>
        B == <<b.year, b.month, b.day, b.hour, b.minute, b.second>>
    IN  \E i \in 1..6 : A[i] < B[i] /\ \A j \in 1..(i - 1) : A[j] = B[j]

\* C28: the groups that group_orders_by_session returns are in the order of
\* their date and time of creation, the most recent first.
C28_MostRecentFirst ==
    (app.proc = "meus_pedidos" /\ app.called) =>
        \A i, j \in DOMAIN app.grouped_orders :
            i < j => ~Earlier(app.grouped_orders[i].created,
                              app.grouped_orders[j].created)

\* ===================== the login page of streamlit_app_postgresql
\* the page calls init_database() of database_config_render
LoginInit ==
    /\ db = EmptyDb
    /\ pc = [s \in Sessions |-> "idle"]
    /\ call = [s \in Sessions |-> NoCall]
    /\ pending = [s \in Sessions |-> <<>>]
    /\ ret = NoRet
    /\ app = [proc |-> "init_database", attempt |-> 0, phase |-> "try",
              result |-> "none", errors |-> <<>>, delay |-> 0,
              page |-> "init", shown |-> {}]

\* try: init_database(); st.success(...)  except Exception: st.error(...);
\* st.stop().  The value that init_database returns is not looked at; the
\* except clause runs when the call raises.
LoginPageInit ==
    /\ app.proc = "init_database"
    /\ app.phase = "returned"
    /\ app.page = "init"
    /\ IF app.result = "raised"
       THEN app' = [app EXCEPT !.page = "stopped",
                               !.shown = @ \cup {"Erro ao conectar com banco"}]
       ELSE app' = [app EXCEPT !.page = "login_form",
                               !.shown = @ \cup {"Banco de dados conectado!"}]
    /\ UNCHANGED dbvars

LoginNext ==
    \/ InitDbCommit
    \/ \E e \in ErrorTexts : InitDbExcept(e)
    \/ InitDbSleep
    \/ LoginPageInit

LoginSpec == LoginInit /\ [][LoginNext]_vars

\* C29: the login form is offered and 'Banco de dados conectado' is shown
\* only after an init_database that succeeded; after one that failed the page
\* shows the error and stops.
C29_LoginOnlyAfterInit ==
    (app.proc = "init_database" /\ app.phase = "returned" /\ app.page # "init") =>
        IF app.result = "True"
        THEN app.page = "login_form"
        ELSE /\ app.page = "stopped"
             /\ "Banco de dados conectado!" \notin app.shown

\* ============================================================ auth_system_v2
MaxUsers == 4

\* role VARCHAR(20) NOT NULL CHECK(role IN ('admin', 'cd', 'store'))
RoleCheck(role) == role \in {"admin", "cd", "store"}

\* hashlib.sha256(password.encode()).hexdigest(): the digest of a password,
\* different for different passwords
hash_password(password) == <<"sha256", password>>

\* users_to_create of init_default_users
DefaultUsers ==
    <<[username |-> "admin", password |-> "admin123", role |-> "admin"],
      [username |-> "cd", password |-> "cd123", role |-> "cd"],
      [username |-> "loja", password |-> "loja123", role |-> "store"]>>

AuthUsernames == {"admin", "ana"}
AuthPasswords == {"admin123", "s3nha"}
AuthRoles     == {"store", "gerente"}
UserIds       == 1..MaxUsers

\* the row that an INSERT INTO users stores: is_active BOOLEAN DEFAULT TRUE
UserRow(username, password, role) ==
    [username |-> username, password_hash |-> hash_password(password),
     role |-> role, is_active |-> TRUE]

\* the mutant of ActiveOnly: the SELECT does not look at is_active
ActiveOnly_off(row) == TRUE

\* AND is_active = TRUE
ActiveOnly(row) == row.is_active = TRUE

\* SELECT ... FROM users WHERE username = %s AND password_hash = %s
\* AND is_active = TRUE; True with the row's data, (False, None) without a row
authenticate_user(users, username, password) ==
    \E id \in DOMAIN users :
        /\ users[id].username = username
        /\ users[id].password_hash = hash_password(password)
        /\ ActiveOnly(users[id])

AuthInit ==
    /\ db = EmptyDb
    /\ pc = [s \in Sessions |-> "idle"]
    /\ call = [s \in Sessions |-> NoCall]
    /\ pending = [s \in Sessions |-> <<>>]
    /\ ret = NoRet
    /\ app = [proc |-> "auth_system_v2", users |-> <<>>, deactivated |-> {},
              op |-> "none", last |-> [username |-> "", password |-> "",
                                       ok |-> FALSE]]

\* init_default_users: the three users, when the table is empty
InitDefaultUsers ==
    /\ app.proc = "auth_system_v2"
    /\ IF Len(app.users) = 0
       THEN app' = [app EXCEPT
                       !.users = [i \in DOMAIN DefaultUsers |->
                                     UserRow(DefaultUsers[i].username,
                                             DefaultUsers[i].password,
                                             DefaultUsers[i].role)],
                       !.op = "init_default_users"]
       ELSE app' = [app EXCEPT !.op = "init_default_users"]
    /\ UNCHANGED dbvars

\* create_user: False for a username that is stored (UNIQUE) and for a role
\* that the CHECK refuses, the row committed otherwise
AuthCreateUser(username, password, role) ==
    /\ app.proc = "auth_system_v2"
    /\ IF \/ \E id \in DOMAIN app.users : app.users[id].username = username
          \/ ~RoleCheck(role)
       THEN app' = [app EXCEPT !.op = "create_user"]
       ELSE /\ Len(app.users) < MaxUsers
            /\ app' = [app EXCEPT !.users = Append(@, UserRow(username, password,
                                                              role)),
                                  !.op = "create_user"]
    /\ UNCHANGED dbvars

\* authenticate_user(username, password)
Authenticate(username, password) ==
    /\ app.proc = "auth_system_v2"
    /\ app' = [app EXCEPT !.op = "authenticate_user",
                          !.last = [username |-> username, password |-> password,
                                    ok |-> authenticate_user(app.users, username,
                                                             password)]]
    /\ UNCHANGED dbvars

\* update_user_role: UPDATE users SET role = %s WHERE id = %s; False when the
\* CHECK refuses the role of a row that exists
UpdateUserRole(user_id, new_role) ==
    /\ app.proc = "auth_system_v2"
    /\ IF user_id \in DOMAIN app.users /\ RoleCheck(new_role)
       THEN app' = [app EXCEPT !.users[user_id].role = new_role,
                               !.op = "update_user_role"]
       ELSE app' = [app EXCEPT !.op = "update_user_role"]
    /\ UNCHANGED dbvars

\* deactivate_user: UPDATE users SET is_active = FALSE WHERE id = %s, commit,
\* return True.  deactivated is not a column: it is the set of the users
\* for whom the call has returned True.
DeactivateUser(user_id) ==
    /\ app.proc = "auth_system_v2"
    /\ IF user_id \in DOMAIN app.users
       THEN app' = [app EXCEPT !.users[user_id].is_active = FALSE,
                               !.deactivated = @ \cup {user_id},
                               !.op = "deactivate_user"]
       ELSE app' = [app EXCEPT !.op = "deactivate_user"]
    /\ UNCHANGED dbvars

\* a call whose statement or commit raises: the function returns False (or
\* (False, None)) and nothing is stored
AuthFails(op) ==
    /\ app.proc = "auth_system_v2"
    /\ app' = [app EXCEPT !.op = op,
                          !.last = IF op = "authenticate_user"
                                   THEN [@ EXCEPT !.ok = FALSE]
                                   ELSE @]
    /\ UNCHANGED dbvars

AuthNext ==
    \/ InitDefaultUsers
    \/ \E u \in AuthUsernames, p \in AuthPasswords, r \in AuthRoles :
           AuthCreateUser(u, p, r)
    \/ \E u \in AuthUsernames, p \in AuthPasswords : Authenticate(u, p)
    \/ \E id \in UserIds, r \in AuthRoles : UpdateUserRole(id, r)
    \/ \E id \in UserIds : DeactivateUser(id)
    \/ \E op \in {"create_user", "authenticate_user", "update_user_role",
                  "deactivate_user"} : AuthFails(op)

AuthSpec == AuthInit /\ [][AuthNext]_vars

\* C30: a user for whom deactivate_user has returned True cannot authenticate
\* in any later state: authenticate_user with the username and any password,
\* the right one included, finds no row, and a call that has just been made
\* with that username returned (False, None).
C30_DeactivatedStaysOut ==
    app.proc = "auth_system_v2" =>
        \A id \in app.deactivated :
            /\ \A p \in AuthPasswords \cup {"cd123", "loja123"} :
                   ~authenticate_user(app.users, app.users[id].username, p)
            /\ (app.op = "authenticate_user"
                  /\ app.last.username = app.users[id].username) => ~app.last.ok

\* a deactivated user was refused with the right password, after the role
\* of that user was changed
C30_Witness ==
    /\ app.proc = "auth_system_v2"
    /\ app.op = "authenticate_user"
    /\ ~app.last.ok
    /\ \E id \in app.deactivated :
          /\ app.users[id].username = app.last.username
          /\ app.users[id].password_hash = hash_password(app.last.password)
          /\ app.users[id].role = "store"
          /\ app.users[id].username = "admin"
          /\ Len(app.users) >= 2
          /\ app.users[2].username = "cd"

====
